---- MODULE Spec2Model ----
(***************************************************************************)
(* Model of the NESO Octowatch poll cycle.  Two programs of the repository *)
(* run the same two checks on a timer:                                     *)
(*   - the Home Assistant integration (custom_components/neso_octowatch),  *)
(*     whose DfsSessionWatchCoordinator._async_update_data merges the two  *)
(*     checks' mappings and hands the result to coordinator.data;          *)
(*   - the add-on script nesoscan.py, whose main_loop calls the two checks *)
(*     in turn, each of which writes the states file with save_states.     *)
(* Which program runs is fixed in Init (variable variant).                 *)
(* The integration's sensor platform (sensor.py) is set up after the first *)
(* refresh and its entities handle every later update.  The normalizer of  *)
(* either program is also checked on its own (NormSpec).                   *)
(***************************************************************************)
EXTENDS Integers, Sequences, FiniteSets, TLC

\* ------------------------------------------------------------------ bounds

\* The clock counts finished waits; it saturates at MaxClock (the loops go on).
MaxClock == 2

\* ------------------------------------------------------------------ values

\* Python values, tagged so that values of different types are never compared.
None == [t |-> "none", v |-> 0]
Str(s) == [t |-> "str", v |-> s]
Num(n) == [t |-> "num", v |-> n]
\* A pandas Timestamp (midnight of day d): a raw temporal object.
Timestamp(d) == [t |-> "timestamp", v |-> d]
\* A numeric cell read from a row and not passed through
\* _convert_to_serializable: the NumPy scalar of the column's dtype.
NumpyScalar(n) == [t |-> "numpy", v |-> n]
\* The string datetime.now().isoformat() read at clock value c.
NowIso(c) == [t |-> "iso_now", v |-> c]
\* The ISO-8601 string of midnight of day d with the process's local offset.
IsoLocal(d) == [t |-> "iso_local", v |-> d]
\* A Python list / a formatted listing, held as a sequence.
List(s) == [t |-> "list", v |-> s]

\* ---------------------------------------------------------------- mappings

\* A Python dict with string keys is a function on a set of strings.
EmptyDict == [k \in {} |-> None]

\* {**a, **b}: the keys of both, b's value on a collision.
Merge(a, b) ==
    [k \in (DOMAIN a) \cup (DOMAIN b) |-> IF k \in DOMAIN b THEN b[k] ELSE a[k]]

\* One published entry: {"state": ..., "attributes": {...}}.
Entry(state, attributes) == [state |-> state, attributes |-> attributes]

\* ------------------------------------------------------------ sensor keys

\* Keys of the integration's mapping.
K_UTILIZATION == "octopus_dfs_session_utilization"
K_DELIVERY_DATE == "octopus_dfs_session_delivery_date"
K_HIGHEST_ACCEPTED == "octopus_dfs_session_highest_accepted"
K_TIME_WINDOW == "octopus_dfs_session_time_window"
K_PRICE == "octopus_dfs_session_price"
K_VOLUME == "octopus_dfs_session_volume"
K_DETAILS == "octopus_dfs_session_details"

\* Keys of the add-on script's states file.
F_STATUS == "octopus_neso_status"
F_DETAILS == "octopus_neso_details"
F_UTILIZATION == "octopus_neso_utilization"
F_HIGHEST_ACCEPTED == "octopus_neso_highest_accepted"
F_UTILIZATION_DETAILS == "octopus_neso_utilization_details"

\* ------------------------------------------------------- sequence helpers

RECURSIVE InsertBy(_, _, _)
\* x inserted into the sorted sequence s after every element not greater than
\* it (Less(a, b): a sorts strictly before b): the step of a stable sort.
InsertBy(Less(_, _), x, s) ==
    IF s = <<>> THEN <<x>>
    ELSE IF Less(x, Head(s)) THEN <<x>> \o s
    ELSE <<Head(s)>> \o InsertBy(Less, x, Tail(s))

RECURSIVE SortBy(_, _)
\* A stable sort of s by Less.
SortBy(Less(_, _), s) ==
    IF s = <<>> THEN <<>>
    ELSE InsertBy(Less, s[Len(s)], SortBy(Less, SubSeq(s, 1, Len(s) - 1)))

\* The largest / smallest member of a non-empty set of integers.
SetMax(S) == CHOOSE x \in S : \A y \in S : y <= x
SetMin(S) == CHOOSE x \in S : \A y \in S : x <= y

\* ------------------------------------------------------------- data frames

\* Column names of the two datasets.
C_DATE == "Delivery Date"
C_PARTICIPANT == "Registered DFS Participant"
C_STATUS == "Status"
C_PRICE == "Utilisation Price GBP per MWh"
C_FROM == "From"
C_TO == "To"
C_VOLUME == "DFS Volume MW"
C_MW == "Service Requirement MW"
C_GPRICE == "Guaranteed Acceptance Price GBP per MWh"
C_SRTYPE == "Service Requirement Type"
C_DISPATCH == "Dispatch Type"

OCTOPUS == "OCTOPUS ENERGY LIMITED"
RIVAL == "RIVAL FLEX LIMITED"

\* A data frame is the sequence of its rows in the order of the response; a
\* row is a function from the frame's column names to the cell values.  Dates
\* are day numbers, From/To are half-hour slot numbers.
Columns(df) == IF df = <<>> THEN {} ELSE DOMAIN df[1]

\* One utilization record.
URow(p, d, f, t, st, pr, vol) ==
    (C_PARTICIPANT :> p) @@ (C_DATE :> d) @@ (C_FROM :> f) @@ (C_TO :> t)
        @@ (C_STATUS :> st) @@ (C_PRICE :> pr) @@ (C_VOLUME :> vol)

\* One bid-eligibility record.
BRow(d, f, t, mw, gp) ==
    (C_DATE :> d) @@ (C_FROM :> f) @@ (C_TO :> t) @@ (C_MW :> mw)
        @@ (C_GPRICE :> gp) @@ (C_SRTYPE :> "DFS") @@ (C_DISPATCH :> "Day Ahead")

\* The row without one of its columns.
Drop(row, col) == [c \in (DOMAIN row) \ {col} |-> row[c]]

\* A cell the remote API sent as null: NaN in a numeric column of the frame.
NullCell == -1

\* The days pd.Timestamp.now().normalize() may return in a cycle.
Todays == {10, 12}

\* Utilization record sets the remote API may answer with: none; the tracked
\* participant and another one on a coming day; only another participant, on
\* past days and rejected; a record set without the delivery-date column;
\* records of a past day and of two coming days, another participant's first;
\* an accepted record of another participant whose volume is null, with
\* a higher accepted price on a past day.
UtilFrames ==
    { <<>>,
      << URow(RIVAL, 13, 34, 35, "ACCEPTED", 60, 5),
         URow(OCTOPUS, 13, 34, 35, "ACCEPTED", 45, 10),
         URow(OCTOPUS, 13, 35, 36, "Rejected", 90, 10) >>,
      << URow(RIVAL, 8, 34, 35, "REJECTED", 50, 5),
         URow(RIVAL, 9, 34, 35, "REJECTED", 55, 5) >>,
      << Drop(URow(OCTOPUS, 13, 34, 35, "ACCEPTED", 45, 10), C_DATE) >>,
      << URow(RIVAL, 13, 30, 31, "Accepted", 70, 5),
         URow(OCTOPUS, 9, 34, 35, "ACCEPTED", 40, 10),
         URow(OCTOPUS, 13, 34, 35, "ACCEPTED", 60, 10),
         URow(OCTOPUS, 13, 35, 36, "ACCEPTED", 45, 10),
         URow(OCTOPUS, 17, 36, 37, "REJECTED", 90, 20) >>,
      << URow(RIVAL, 13, 30, 31, "ACCEPTED", 70, NullCell),
         URow(OCTOPUS, 13, 34, 35, "ACCEPTED", 45, 10),
         URow(RIVAL, 9, 30, 31, "ACCEPTED", 80, 5) >> }

\* Bid-eligibility record sets: none; one row; two rows of one day; rows of a
\* past and a coming day; a record set without the delivery-date column; rows
\* of a past day and of two coming days.
BidFrames ==
    { <<>>,
      << BRow(13, 34, 35, 100, 3) >>,
      << BRow(13, 34, 35, 100, 3), BRow(13, 35, 36, 100, 3) >>,
      << BRow(9, 34, 35, 100, 3), BRow(11, 34, 35, 200, 4) >>,
      << Drop(BRow(13, 34, 35, 100, 3), C_DATE) >>,
      << BRow(9, 34, 35, 100, 3), BRow(13, 34, 35, 100, 3), BRow(17, 34, 35, 200, 4) >> }

\* ------------------------------------------------------------- responses

\* What requests.get and response.json() can yield for one query:
\*   connection_error  requests.get raises (network failure)
\*   http_409          status code 409
\*   http_error        another non-2xx status: raise_for_status raises
\*   not_success       2xx, JSON body with success false
\*   no_result         2xx, success true, no "result" field
\*   ok                2xx, success true, result.records = frame
Response(kind, frame) == [kind |-> kind, frame |-> frame]

FailureKinds == {"connection_error", "http_409", "http_error", "not_success", "no_result"}

UtilResponses ==
    {Response(k, <<>>) : k \in FailureKinds} \cup {Response("ok", f) : f \in UtilFrames}

BidResponses ==
    {Response(k, <<>>) : k \in FailureKinds} \cup {Response("ok", f) : f \in BidFrames}

\* A result of a step that may raise: the value it returns, or the exception.
Return(value) == [raised |-> FALSE, value |-> value, error |-> ""]
Raise(error) == [raised |-> TRUE, value |-> EmptyDict, error |-> error]

\* -------------------------------------------------- integration: analysis

\* Status.str.upper().str.contains('ACCEPTED') over the status texts of the
\* record sets above.
ContainsAccepted(status) == status \in {"ACCEPTED", "Accepted", "accepted"}

\* _convert_to_serializable on a cell holding a delivery date after
\* pd.to_datetime: a naive Timestamp gets the local zone and is formatted.
ConvertDate(d) == IsoLocal(d)

\* _convert_to_serializable on a From/To cell (a text): passed through.
ConvertTime(slot) == [t |-> "time", v |-> slot]

\* row.get(col): the cell, or None when the row has no such column.
Get(row, col, Conv(_)) == IF col \in DOMAIN row THEN Conv(row[col]) ELSE None

\* The first row of rows holding the largest price (Series.idxmax).
RECURSIVE IdxMax(_, _)
IdxMax(rows, col) ==
    IF Len(rows) = 1 THEN rows[1]
    ELSE LET rest == IdxMax(Tail(rows), col)
         IN  IF rows[1][col] >= rest[col] THEN rows[1] ELSE rest

\* The rows taken two at a time; a trailing single row is a group of its own.
RECURSIVE Pairs(_)
Pairs(rows) ==
    IF rows = <<>> THEN <<>>
    ELSE IF Len(rows) = 1 THEN << <<rows[1]>> >>
    ELSE << <<rows[1], rows[2]>> >> \o Pairs(SubSeq(rows, 3, Len(rows)))

RECURSIVE SumCol(_, _)
SumCol(rows, col) == IF rows = <<>> THEN 0 ELSE rows[1][col] + SumCol(Tail(rows), col)

\* The mean of n numbers of sum s, kept exact.
Mean(s, n) == [t |-> "mean", v |-> <<s, n>>]

\* df.sort_values('Delivery Date'): the earliest date first.
SortDateAscending(df) ==
    LET Less(a, b) == a[C_DATE] < b[C_DATE]
    IN  SortBy(Less, df)

\* df.sort_values('Delivery Date', ascending=False).
SortDateDescending(df) ==
    LET Less(a, b) == a[C_DATE] > b[C_DATE]
    IN  SortBy(Less, df)

\* octopus_df.sort_values(['Delivery Date', 'From']).
SortDateFrom(df) ==
    LET Less(a, b) ==
            \/ a[C_DATE] < b[C_DATE]
            \/ a[C_DATE] = b[C_DATE] /\ a[C_FROM] < b[C_FROM]
    IN  SortBy(Less, df)

\* The time-window, price and volume entries of the tracked participant.
GroupStates(octopus_df) ==
    LET groups == Pairs(SortDateFrom(octopus_df))
        time_windows == [i \in DOMAIN groups |->
            [j \in DOMAIN groups[i] |-> <<groups[i][j][C_FROM], groups[i][j][C_TO]>>]]
        volumes == [i \in DOMAIN groups |->
            [j \in DOMAIN groups[i] |-> groups[i][j][C_VOLUME]]]
        prices == [i \in DOMAIN octopus_df |-> Num(octopus_df[i][C_PRICE])]
    IN  IF octopus_df = <<>>
        THEN (K_TIME_WINDOW :> Entry(None, EmptyDict))
                @@ (K_PRICE :> Entry(None, EmptyDict))
                @@ (K_VOLUME :> Entry(None, EmptyDict))
        ELSE (K_TIME_WINDOW :> Entry([t |-> "joined", v |-> time_windows],
                                     ("individual_windows" :> List(time_windows))))
                @@ (K_PRICE :> Entry(Mean(SumCol(octopus_df, C_PRICE), Len(octopus_df)),
                                     ("individual_prices" :> List(prices))))
                @@ (K_VOLUME :> Entry([t |-> "joined", v |-> volumes],
                                      ("individual_volumes" :> List(volumes))))

\* The columns the group summary reads, in the order it reads them.
GroupColumns == <<C_FROM, C_TO, C_VOLUME, C_PRICE>>

\* The columns the highest accepted bid reads, in the order it reads them.
AcceptedColumns == <<C_PRICE, C_FROM, C_TO, C_VOLUME>>

\* The first column of cols that df lacks (a KeyError), "" when it has all.
RECURSIVE FirstMissing(_, _)
FirstMissing(df, cols) ==
    IF cols = <<>> THEN ""
    ELSE IF cols[1] \notin Columns(df) THEN cols[1]
    ELSE FirstMissing(df, Tail(cols))

\* _convert_to_serializable of a numeric cell: None for a null cell.
ConvertCell(cell) == IF cell = NullCell THEN None ELSE Num(cell)

\* The body of _check_utilization on a non-empty record set: the states it
\* builds, or the exception a missing column raises.
UtilizationStates(df0, today, now) ==
    IF C_DATE \notin Columns(df0) THEN Raise(C_DATE)
    ELSE IF C_PARTICIPANT \notin Columns(df0) THEN Raise(C_PARTICIPANT)
    ELSE IF C_STATUS \notin Columns(df0) THEN Raise(C_STATUS)
    ELSE
    LET IsFuture(r) == r[C_DATE] >= today
        future_df == SelectSeq(df0, IsFuture)
        latest == IF future_df # <<>> THEN future_df[1] ELSE df0[1]
        IsOctopus(r) == r[C_PARTICIPANT] = OCTOPUS
        octopus_df == SelectSeq(df0, IsOctopus)
        df == SortDateDescending(df0)
        most_recent_date == df[1][C_DATE]
        IsRecent(r) == r[C_DATE] = most_recent_date
        recent_bids == SelectSeq(df, IsRecent)
        IsAccepted(r) == ContainsAccepted(r[C_STATUS])
        accepted_bids == SelectSeq(recent_bids, IsAccepted)
        status == IF octopus_df # <<>> THEN Str(octopus_df[1][C_STATUS]) ELSE Str("UNKNOWN")
        delivery_date == SetMax({df[i][C_DATE] : i \in DOMAIN df})
        missing == IF accepted_bids # <<>> /\ FirstMissing(df0, AcceptedColumns) # ""
                   THEN FirstMissing(df0, AcceptedColumns)
                   ELSE IF octopus_df # <<>> THEN FirstMissing(df0, GroupColumns)
                   ELSE ""
    IN  IF missing # "" THEN Raise(missing)
        ELSE
        LET highest == IF accepted_bids # <<>> THEN IdxMax(accepted_bids, C_PRICE) ELSE <<>>
        IN  Return(
            (K_UTILIZATION :> Entry(status, ("last_checked" :> NowIso(now))))
            @@ (K_DELIVERY_DATE :> Entry(ConvertDate(delivery_date),
                    ("raw_date" :> Timestamp(delivery_date))
                    @@ ("time_from" :> Get(latest, C_FROM, ConvertTime))
                    @@ ("time_to" :> Get(latest, C_TO, ConvertTime))
                    @@ ("volume" :> IF octopus_df # <<>>
                                    THEN Get(octopus_df[1], C_VOLUME, Num) ELSE None)
                    @@ ("last_update" :> NowIso(now))))
            @@ (K_HIGHEST_ACCEPTED :>
                    IF accepted_bids = <<>> THEN Entry(None, EmptyDict)
                    ELSE Entry(NumpyScalar(highest[C_PRICE]),
                            ("delivery_date" :> ConvertDate(highest[C_DATE]))
                            @@ ("time_from" :> ConvertTime(highest[C_FROM]))
                            @@ ("time_to" :> ConvertTime(highest[C_TO]))
                            @@ ("volume" :> ConvertCell(highest[C_VOLUME]))
                            @@ ("last_update" :> NowIso(now))))
            @@ GroupStates(octopus_df))

\* The mapping an exception inside _check_utilization is turned into.
UtilizationError(error, now) ==
    (K_UTILIZATION :> Entry(Str("error"),
        ("last_checked" :> NowIso(now)) @@ ("error" :> Str(error))))

\* What a query step hands to the analysis: an exception, an early return
\* (the check returns at once), or the record set.
Early == [raised |-> FALSE, early |-> TRUE, frame |-> <<>>, error |-> ""]
Records(frame) == [raised |-> FALSE, early |-> FALSE, frame |-> frame, error |-> ""]
QueryRaise(error) == [raised |-> TRUE, early |-> FALSE, frame |-> <<>>, error |-> error]

\* A query step without the 409 return: raise_for_status raises on the 409.
UtilizationQueryNo409(resp) ==
    IF resp.kind = "connection_error" THEN QueryRaise("ConnectionError")
    ELSE IF resp.kind \in {"http_409", "http_error"} THEN QueryRaise("HTTPError")
    ELSE IF resp.kind = "not_success" THEN Early
    ELSE IF resp.kind = "no_result" THEN QueryRaise("result")
    ELSE Records(resp.frame)

\* The query step of _check_utilization: requests.get up to the DataFrame.
UtilizationQuery(resp) ==
    IF resp.kind = "connection_error" THEN QueryRaise("ConnectionError")
    ELSE IF resp.kind = "http_409" THEN Early
    ELSE IF resp.kind = "http_error" THEN QueryRaise("HTTPError")
    ELSE IF resp.kind = "not_success" THEN Early
    ELSE IF resp.kind = "no_result" THEN QueryRaise("result")
    ELSE Records(resp.frame)

\* _check_utilization: the mapping it returns; it raises nothing.
CheckUtilization(resp, today, now) ==
    LET q == UtilizationQuery(resp)
        r == UtilizationStates(q.frame, today, now)
    IN  IF q.raised THEN UtilizationError(q.error, now)
        ELSE IF q.early \/ q.frame = <<>> THEN EmptyDict
        ELSE IF r.raised THEN UtilizationError(r.error, now)
        ELSE r.value

\* The delivery date _format_time_slots lists: the earliest day from today
\* on, else the latest day.
ResolvedDate(df, today) ==
    LET dates == {df[i][C_DATE] : i \in DOMAIN df}
        future == {d \in dates : d >= today}
    IN  IF future # {} THEN SetMin(future) ELSE SetMax(dates)

\* One period line of the listing; a column the row lacks is left out.
SlotLine(row) ==
    [from |-> row[C_FROM], to |-> row[C_TO],
     mw |-> Get(row, C_MW, Num), price |-> Get(row, C_GPRICE, Num)]

\* _format_time_slots of the integration: the date header and one line per
\* row of the resolved date.
FormatTimeSlots(df, today) ==
    LET most_recent_date == ResolvedDate(df, today)
        IsRecent(r) == r[C_DATE] = most_recent_date
        df_recent == SelectSeq(SortDateFrom(df), IsRecent)
    IN  [t |-> "listing",
         v |-> [date |-> most_recent_date,
                lines |-> [i \in DOMAIN df_recent |-> SlotLine(df_recent[i])]]]

\* The raw_data attribute: the rows of the latest delivery date, cell by cell
\* through _convert_to_serializable.
RawData(df) ==
    LET latest_date == SetMax({df[i][C_DATE] : i \in DOMAIN df})
        IsLatest(r) == r[C_DATE] = latest_date
        rows == SelectSeq(df, IsLatest)
    IN  List([i \in DOMAIN rows |->
            [c \in DOMAIN rows[i] |->
                IF c = C_DATE THEN ConvertDate(rows[i][c])
                ELSE IF c \in {C_FROM, C_TO} THEN ConvertTime(rows[i][c])
                ELSE IF c \in {C_SRTYPE, C_DISPATCH} THEN Str(rows[i][c])
                ELSE Num(rows[i][c])]])

\* The query step of _check_octopus_bids.
BidsQuery(resp) ==
    IF resp.kind = "connection_error" THEN QueryRaise("ConnectionError")
    ELSE IF resp.kind = "http_409" THEN Early
    ELSE IF resp.kind = "http_error" THEN QueryRaise("HTTPError")
    ELSE IF resp.kind = "not_success" THEN Early
    ELSE IF resp.kind = "no_result" THEN Early
    ELSE Records(resp.frame)

\* The states _check_octopus_bids builds from the record set.
BidsStates(df, today) ==
    IF df = <<>>
    THEN Return((K_DETAILS :> Entry(Str("No entries found"), ("raw_data" :> List(<<>>)))))
    ELSE IF FirstMissing(df, <<C_DATE, C_FROM, C_TO>>) # ""
    THEN Raise(FirstMissing(df, <<C_DATE, C_FROM, C_TO>>))
    ELSE Return((K_DETAILS :> Entry(FormatTimeSlots(df, today), ("raw_data" :> RawData(df)))))

\* The mapping an exception inside _check_octopus_bids is turned into.
BidsError(error) == EmptyDict

\* _check_octopus_bids: the mapping it returns; it raises nothing.
CheckOctopusBids(resp, today) ==
    LET q == BidsQuery(resp)
        r == BidsStates(q.frame, today)
    IN  IF q.raised THEN BidsError(q.error)
        ELSE IF q.early THEN EmptyDict
        ELSE IF r.raised THEN BidsError(r.error)
        ELSE r.value

\* ------------------------------------------------------- add-on: analysis

\* add_period of format_time_slots: the period in progress appended to the
\* lines, when one has been started.
AddPeriod(acc) ==
    IF acc.period_start # None /\ acc.period_end # None
    THEN [acc EXCEPT !.time_slots = Append(@,
            [from |-> acc.period_start.v, to |-> acc.period_end.v,
             mw |-> acc.current_mw, price |-> acc.current_price])]
    ELSE acc

\* The loop of format_time_slots over the rows from index i on.
RECURSIVE PeriodLoop(_, _, _)
PeriodLoop(rows, i, acc) ==
    IF i > Len(rows) THEN AddPeriod(acc)
    ELSE LET mw == Get(rows[i], C_MW, Num)
             price == Get(rows[i], C_GPRICE, Num)
             opened == IF mw # acc.current_mw \/ price # acc.current_price
                       THEN [AddPeriod(acc) EXCEPT
                                !.period_start = ConvertTime(rows[i][C_FROM]),
                                !.current_mw = mw,
                                !.current_price = price]
                       ELSE acc
         IN  PeriodLoop(rows, i + 1,
                [opened EXCEPT !.period_end = ConvertTime(rows[i][C_TO])])

\* format_time_slots of the add-on: the header of the latest delivery date and
\* one line per run of rows with the same capacity and price.
FileFormatTimeSlots(df) ==
    LET most_recent_date == SetMax({df[i][C_DATE] : i \in DOMAIN df})
        IsRecent(r) == r[C_DATE] = most_recent_date
        df_recent == SelectSeq(SortDateFrom(df), IsRecent)
        start == [time_slots |-> <<>>, current_mw |-> None, current_price |-> None,
                  period_start |-> None, period_end |-> None]
    IN  [t |-> "listing",
         v |-> [date |-> most_recent_date,
                lines |-> PeriodLoop(df_recent, 1, start).time_slots]]

\* pd.isna(obj) of convert_to_serializable on a list: an array of booleans
\* whose truth value is an error for two or more elements and, for none, an
\* error or False depending on the NumPy release (strict).
IsnaRaises(value, strict) ==
    /\ value.t = "list"
    /\ \/ Len(value.v) >= 2
       \/ Len(value.v) = 0 /\ strict

\* A save_states that adds its keys to those the file holds.
SaveStatesMerging(states, strict, file) == Return(Merge(file, states))

\* save_states: the content of the states file after the call, file being
\* its content before, or the exception convert_to_serializable raises on an
\* attribute before the file is opened.  open(STATES_PATH, 'w') drops what
\* the file held.
SaveStates(states, strict, file) ==
    IF \E k \in DOMAIN states : \E a \in DOMAIN states[k].attributes :
            IsnaRaises(states[k].attributes[a], strict)
    THEN Raise("ValueError")
    ELSE Return(states)

\* The raw_data attribute of the add-on: the dates stay texts.
FileRawData(df) ==
    LET latest_date == SetMax({df[i][C_DATE] : i \in DOMAIN df})
        IsLatest(r) == r[C_DATE] = latest_date
        rows == SelectSeq(df, IsLatest)
    IN  List([i \in DOMAIN rows |->
            [c \in DOMAIN rows[i] |->
                IF c = C_DATE THEN [t |-> "date_text", v |-> rows[i][c]]
                ELSE IF c \in {C_FROM, C_TO} THEN ConvertTime(rows[i][c])
                ELSE IF c \in {C_SRTYPE, C_DISPATCH} THEN Str(rows[i][c])
                ELSE Num(rows[i][c])]])

\* The outcome of a check of the add-on: whether it raised, whether it saved
\* states, the content of the states file when it ends, and the mappings it
\* passed to save_states, in the order of the calls.
Outcome(raised, saved, file, passed) ==
    [raised |-> raised, saved |-> saved, file |-> file, passed |-> passed]

\* The except branch of a check: the error state is saved, the exception is
\* raised again.
FileError(key, error, now, strict, file, passed) ==
    LET states == (key :> Entry(Str("error"),
                        ("last_checked" :> NowIso(now)) @@ ("error" :> Str(error))))
    IN  Outcome(TRUE, TRUE, SaveStates(states, strict, file).value,
                Append(passed, states))

\* The query step of check_octopus_bids.
FileBidsQuery(resp) ==
    IF resp.kind = "connection_error" THEN QueryRaise("ConnectionError")
    ELSE IF resp.kind = "http_409" THEN Early
    ELSE IF resp.kind = "http_error" THEN QueryRaise("HTTPError")
    ELSE IF resp.kind = "not_success" THEN Early
    ELSE IF resp.kind = "no_result" THEN Early
    ELSE Records(resp.frame)

\* The states check_octopus_bids builds from the record set.
FileBidsStates(df, now) ==
    IF df = <<>>
    THEN Return(
        (F_STATUS :> Entry(Str("inactive"),
            ("last_checked" :> NowIso(now)) @@ ("entry_count" :> Num(0))
            @@ ("service_type" :> None) @@ ("dispatch_type" :> None)
            @@ ("most_recent_date" :> None)))
        @@ (F_DETAILS :> Entry(Str("No entries found"), ("raw_data" :> List(<<>>)))))
    ELSE IF FirstMissing(df, <<C_SRTYPE, C_DISPATCH, C_DATE, C_FROM, C_TO>>) # ""
    THEN Raise(FirstMissing(df, <<C_SRTYPE, C_DISPATCH, C_DATE, C_FROM, C_TO>>))
    ELSE Return(
        (F_STATUS :> Entry(Str("active"),
            ("last_checked" :> NowIso(now)) @@ ("entry_count" :> Num(Len(df)))
            @@ ("service_type" :> Str(df[1][C_SRTYPE]))
            @@ ("dispatch_type" :> Str(df[1][C_DISPATCH]))
            @@ ("most_recent_date" :>
                    [t |-> "date_text", v |-> SetMax({df[i][C_DATE] : i \in DOMAIN df})])))
        @@ (F_DETAILS :> Entry(FileFormatTimeSlots(df), ("raw_data" :> FileRawData(df)))))

\* check_octopus_bids: file is the content of the states file before the call.
FileCheckOctopusBids(resp, now, strict, file) ==
    LET q == FileBidsQuery(resp)
        r == FileBidsStates(q.frame, now)
        saved == SaveStates(r.value, strict, file)
    IN  IF q.raised THEN FileError(F_STATUS, q.error, now, strict, file, <<>>)
        ELSE IF q.early THEN Outcome(FALSE, FALSE, file, <<>>)
        ELSE IF r.raised THEN FileError(F_STATUS, r.error, now, strict, file, <<>>)
        ELSE IF saved.raised
        THEN FileError(F_STATUS, saved.error, now, strict, file, <<r.value>>)
        ELSE Outcome(FALSE, TRUE, saved.value, <<r.value>>)

\* The query step of check_utilization.
FileUtilizationQuery(resp) ==
    IF resp.kind = "connection_error" THEN QueryRaise("ConnectionError")
    ELSE IF resp.kind = "http_409" THEN Early
    ELSE IF resp.kind = "http_error" THEN QueryRaise("HTTPError")
    ELSE IF resp.kind = "not_success" THEN Early
    ELSE IF resp.kind = "no_result" THEN QueryRaise("result")
    ELSE Records(resp.frame)

\* The body of check_utilization on a non-empty record set.  The status cell
\* is a text, and latest.get('Status', '').item() raises AttributeError on a
\* text (as on the default ''), so the states below it are never built.
FileUtilizationStates(df) == Raise("'str' object has no attribute 'item'")

\* check_utilization: file is the content of the states file before the call.
FileCheckUtilization(resp, now, strict, file) ==
    LET q == FileUtilizationQuery(resp)
        r == FileUtilizationStates(q.frame)
    IN  IF q.raised THEN FileError(F_UTILIZATION, q.error, now, strict, file, <<>>)
        ELSE IF q.early \/ q.frame = <<>> THEN Outcome(FALSE, FALSE, file, <<>>)
        ELSE IF r.raised THEN FileError(F_UTILIZATION, r.error, now, strict, file, <<>>)
        ELSE Outcome(FALSE, TRUE, SaveStates(r.value, strict, file).value, <<r.value>>)

\* -------------------------------------------------------------- normalizer

\* float('nan') / pd.NaT: a missing value that is not None.
NaN == [t |-> "nan", v |-> 0]
\* A datetime / pandas Timestamp: wall-clock hour, microseconds, UTC offset
\* ("naive" when tzinfo is None).
Stamp(wall, micro, offset) ==
    [t |-> "stamp", v |-> [wall |-> wall, micro |-> micro, offset |-> offset]]
\* The ISO-8601 text of a datetime; a naive one is written without offset.
Iso(wall, micro, offset) ==
    [t |-> "iso", v |-> [wall |-> wall, micro |-> micro, offset |-> offset]]
\* A Python dict as a value.
Dict(d) == [t |-> "dict", v |-> d]

\* The UTC offsets a process or a timestamp can carry, and their hours.
Offsets == {"+00:00", "+01:00"}
Hours(offset) == IF offset = "+01:00" THEN 1 ELSE 0

\* The result of a call of the normalizer: a value, or the ValueError of
\* "if pd.isna(obj)" on an array.
Converted(value) == [raised |-> FALSE, value |-> value]
ConvertRaise == [raised |-> TRUE, value |-> None]

\* The truth value of pd.isna(obj) where it has one: None, NaN and NaT are
\* missing, and so is a list whose only element is missing (pd.isna of a
\* list is the array of its elements' answers).
IsNa(obj) ==
    \/ obj.t \in {"none", "nan"}
    \/ obj.t = "list" /\ Len(obj.v) = 1 /\ obj.v[1].t \in {"none", "nan"}

RECURSIVE ConvertToSerializable(_, _, _)
\* _convert_to_serializable of the integration, tz the process's local offset.
ConvertToSerializable(obj, tz, strict) ==
    IF IsnaRaises(obj, strict) THEN ConvertRaise
    ELSE IF IsNa(obj) THEN Converted(None)
    ELSE IF obj.t = "stamp" THEN
        LET aware == IF obj.v.offset = "naive" THEN tz ELSE obj.v.offset
            utc_time == obj.v.wall + Hours(tz) - Hours(aware)
        IN  Converted(Iso(utc_time, 0, tz))
    ELSE IF obj.t = "timestamp" THEN Converted(ConvertDate(obj.v))
    ELSE IF obj.t = "numpy" THEN Converted(Num(obj.v))
    ELSE IF obj.t = "dict" THEN
        LET r == [k \in DOMAIN obj.v |-> ConvertToSerializable(obj.v[k], tz, strict)]
        IN  IF \E k \in DOMAIN r : r[k].raised THEN ConvertRaise
            ELSE Converted(Dict([k \in DOMAIN r |-> r[k].value]))
    ELSE IF obj.t = "list" THEN
        LET r == [i \in DOMAIN obj.v |-> ConvertToSerializable(obj.v[i], tz, strict)]
        IN  IF \E i \in DOMAIN r : r[i].raised THEN ConvertRaise
            ELSE Converted(List([i \in DOMAIN r |-> r[i].value]))
    ELSE Converted(obj)

RECURSIVE FileConvertToSerializable(_, _)
\* convert_to_serializable of the add-on: a timestamp is written by
\* isoformat() as it is.
FileConvertToSerializable(obj, strict) ==
    IF IsnaRaises(obj, strict) THEN ConvertRaise
    ELSE IF IsNa(obj) THEN Converted(None)
    ELSE IF obj.t = "stamp" THEN
        Converted(Iso(obj.v.wall, obj.v.micro, obj.v.offset))
    ELSE IF obj.t = "timestamp" THEN Converted([t |-> "iso_naive", v |-> obj.v])
    ELSE IF obj.t = "numpy" THEN Converted(Num(obj.v))
    ELSE IF obj.t = "dict" THEN
        LET r == [k \in DOMAIN obj.v |-> FileConvertToSerializable(obj.v[k], strict)]
        IN  IF \E k \in DOMAIN r : r[k].raised THEN ConvertRaise
            ELSE Converted(Dict([k \in DOMAIN r |-> r[k].value]))
    ELSE IF obj.t = "list" THEN
        LET r == [i \in DOMAIN obj.v |-> FileConvertToSerializable(obj.v[i], strict)]
        IN  IF \E i \in DOMAIN r : r[i].raised THEN ConvertRaise
            ELSE Converted(List([i \in DOMAIN r |-> r[i].value]))
    ELSE Converted(obj)

\* The values handed to the normalizer: scalars, lists of up to MaxList
\* scalars, and dicts of one key.
MaxList == 2
Scalars ==
    {None, NaN, Str("a"), Num(1), NumpyScalar(1), Timestamp(13)}
    \cup {Stamp(10, micro, offset) : micro \in {0, 123456},
                                    offset \in Offsets \cup {"naive"}}
Lists == {List(s) : s \in UNION {[1..n -> Scalars] : n \in 0..MaxList}}
Values == Scalars \cup Lists \cup {Dict("a" :> x) : x \in Scalars \cup Lists}

\* ------------------------------------------------------------------ sensor

\* const.py: the sensor types.
SENSOR_UTILIZATION == "octopus_dfs_session_utilization"
SENSOR_DELIVERY_DATE == "octopus_dfs_session_delivery_date"
SENSOR_TIME_WINDOW == "octopus_dfs_session_time_window"
SENSOR_PRICE == "octopus_dfs_session_price"
SENSOR_VOLUME == "octopus_dfs_session_volume"
SENSOR_HIGHEST_ACCEPTED == "market_highest_accepted_bid"

\* sensor.py, async_setup_entry: the sensor types an entity is created for.
SensorTypes ==
    {SENSOR_UTILIZATION, SENSOR_DELIVERY_DATE, SENSOR_TIME_WINDOW, SENSOR_PRICE,
     SENSOR_VOLUME, SENSOR_HIGHEST_ACCEPTED}

\* sensor.py imports STATUS_UNKNOWN and VALID_STATUSES from const.py, which
\* defines neither: the values are unknown and kept as tokens.
STATUS_UNKNOWN == [t |-> "STATUS_UNKNOWN", v |-> 0]
\* state_value if state_value in VALID_STATUSES else STATUS_UNKNOWN.
StatusIfValid(state_value) == [t |-> "status_if_valid", v |-> state_value]

\* An entity: its native value and its extra state attributes.
Sensor(native_value, attributes) ==
    [native_value |-> native_value, attributes |-> attributes]

\* An entity whose __init__ found no entry of its type.
NewSensor == Sensor(None, EmptyDict)

\* Midnight of day d in UTC, a datetime.
UtcMidnight(d) == [t |-> "utc_midnight", v |-> d]

\* _process_delivery_date: the native value it sets.  An ISO text is cut at
\* '+' and '.', parsed, set to midnight and given the zone UTC; any other
\* value gives None.
ProcessDeliveryDate(state_value) ==
    IF state_value.t = "iso_local" THEN UtcMidnight(state_value.v) ELSE None

\* _process_time_window: the last of the groups joined with ';', the text
\* itself when it is one group, STATUS_UNKNOWN when it is no text.
ProcessTimeWindow(state_value) ==
    IF state_value.t = "joined" /\ Len(state_value.v) >= 2
    THEN [t |-> "joined", v |-> <<state_value.v[Len(state_value.v)]>>]
    ELSE IF state_value.t = "joined" THEN state_value
    ELSE STATUS_UNKNOWN

\* _process_price: only a text is split into prices; for any other state
\* all_prices stays empty and the native value is None.
ProcessPrice(state_value) ==
    IF state_value.t = "str" THEN [t |-> "mean_of_text", v |-> state_value.v]
    ELSE None

\* _process_volume: of groups joined with ';', the first volume of the last
\* group that holds two; of one group, its first volume; None for no text.
ProcessVolume(state_value) ==
    IF state_value.t # "joined" THEN None
    ELSE IF Len(state_value.v) >= 2
    THEN LET HasTwo(g) == Len(g) = 2
             values == SelectSeq(state_value.v, HasTwo)
         IN  IF values # <<>> THEN Num(values[Len(values)][1]) ELSE None
    ELSE Num(state_value.v[1][1])

\* _handle_initial_state, its last statement: whatever the processing of the
\* state has set, the entity's extra attributes are the attributes of the
\* coordinator's entry.
SensorAttributes(sensor_data) == sensor_data.attributes

\* _handle_initial_state: the entity after it has processed its entry.
HandleInitialState(sensor_type, sensor_data) ==
    LET state_value == sensor_data.state
        native_value ==
            IF sensor_type = SENSOR_UTILIZATION THEN StatusIfValid(state_value)
            ELSE IF sensor_type = SENSOR_DELIVERY_DATE THEN ProcessDeliveryDate(state_value)
            ELSE IF sensor_type = SENSOR_TIME_WINDOW THEN ProcessTimeWindow(state_value)
            ELSE IF sensor_type = SENSOR_VOLUME THEN ProcessVolume(state_value)
            ELSE IF sensor_type = SENSOR_PRICE THEN ProcessPrice(state_value)
            ELSE IF state_value.t \in {"num", "numpy"} THEN Num(state_value.v)
            ELSE None
    IN  Sensor(native_value, SensorAttributes(sensor_data))

\* An update that finds no entry of the sensor's type and keeps what the
\* entity held.
HandleMissingKeyKeeps(sensor) == sensor

\* _handle_coordinator_update, the else branch for a missing key: the value
\* and the attributes are reset.
HandleMissingKey(sensor) == Sensor(None, EmptyDict)

\* _handle_coordinator_update: the entity after the coordinator's update.
HandleCoordinatorUpdate(sensor_type, sensor, coordinator_data) ==
    IF sensor_type \notin DOMAIN coordinator_data THEN
        IF /\ sensor_type = SENSOR_DELIVERY_DATE
           /\ K_HIGHEST_ACCEPTED \in DOMAIN coordinator_data
        THEN LET attributes == coordinator_data[K_HIGHEST_ACCEPTED].attributes
             IN  IF /\ "delivery_date" \in DOMAIN attributes
                    /\ attributes["delivery_date"] # None
                 THEN Sensor(ProcessDeliveryDate(attributes["delivery_date"]),
                             sensor.attributes)
                 ELSE sensor
        ELSE HandleMissingKey(sensor)
    ELSE HandleInitialState(sensor_type, coordinator_data[sensor_type])

\* DfsSessionWatchSensor.__init__: the entity created from the coordinator's
\* data.
CreateSensor(sensor_type, coordinator_data) ==
    IF sensor_type \in DOMAIN coordinator_data
    THEN HandleInitialState(sensor_type, coordinator_data[sensor_type])
    ELSE NewSensor

\* ------------------------------------------------------------------- state

VARIABLES
    variant,           \* which program runs: "integration" or "addon"
    strict,            \* add-on: NumPy raises on the truth value of an empty array
    pc,                \* "bids", "util": the check the cycle is at; "idle": waiting
    in_flight,         \* the checks whose HTTP request is sent and not yet answered
    clock,             \* what datetime.now() reads, in finished waits
    data,              \* integration: coordinator.data
    states_file,       \* add-on: the content of STATES_PATH
    bids_data,         \* the mapping the bid check of this cycle returned
                       \* (integration) or saved (add-on)
    utilization_data,  \* the same of the utilization check
    bidsResp,          \* the response the bid check of this cycle received
    utilResp,          \* the response the utilization check of this cycle received
    bids_today,        \* the day on which the bid check of this cycle ran
    util_today,        \* the day on which the utilization check of this cycle ran
    caught,            \* an exception reached the cycle boundary in this cycle
    prev,              \* the visible mapping when this cycle started
    polled,            \* a poll cycle has run to its end
    last_saved,        \* add-on: the mapping last passed to save_states
    platform,          \* integration: how far the set-up of the entry has come
    sensors,           \* integration: the entities of the sensor platform
    last_update_success,  \* integration: coordinator.last_update_success
    tz,                \* the local UTC offset of the process
    obj,               \* normalizer on its own: the value handed to it
    once,              \* the result of normalizing obj
    twice              \* the result of normalizing that result

\* The variables of the normalizer on its own.
normVars == <<tz, obj, once, twice>>

\* The variables of the sensor platform.
sensorVars == <<platform, sensors, last_update_success>>

vars == <<variant, strict, pc, in_flight, clock, data, states_file, bids_data,
          utilization_data, bidsResp, utilResp, bids_today, util_today, caught, prev,
          polled, last_saved, sensorVars, normVars>>

\* No response yet in this cycle.
NoResponse == Response("none", <<>>)

\* The check has not run yet in this cycle.
NoDay == 0

\* The mapping the host platform sees.
Visible == IF variant = "integration" THEN data ELSE states_file

\* The state after construction of either program.
Constructed ==
    /\ variant \in {"integration", "addon"}
    /\ strict \in BOOLEAN
    /\ pc = "bids"
    /\ in_flight = {}
    /\ clock = 0
    /\ data = EmptyDict
    /\ states_file = EmptyDict
    /\ bids_data = EmptyDict
    /\ utilization_data = EmptyDict
    /\ bidsResp = NoResponse
    /\ utilResp = NoResponse
    /\ bids_today = NoDay
    /\ util_today = NoDay
    /\ caught = FALSE
    /\ prev = EmptyDict
    /\ polled = FALSE
    /\ last_saved = EmptyDict
    /\ platform = IF variant = "integration" THEN "entry" ELSE "none"
    /\ sensors = EmptyDict
    /\ last_update_success = TRUE

\* The normalizer has not been called.
NotApplied == [raised |-> FALSE, value |-> [t |-> "not_applied", v |-> 0]]

Init ==
    /\ Constructed
    /\ variant = "integration" => strict = FALSE
    /\ tz = "+00:00"
    /\ obj = None
    /\ once = NotApplied
    /\ twice = NotApplied

\* requests.get is called: the check at pc waits for the answer.
SendRequest(v) ==
    /\ variant = v
    /\ pc \in {"bids", "util"}
    /\ in_flight = {}
    /\ in_flight' = {pc}
    /\ UNCHANGED normVars
    /\ UNCHANGED last_saved
    /\ UNCHANGED <<polled, sensorVars>>
    /\ UNCHANGED <<variant, strict, pc, clock, data, states_file, bids_data,
                   utilization_data, bidsResp, utilResp, bids_today, util_today,
                   caught, prev>>

\* ------------------------------------------------------------ integration

\* An _async_update_data without the except branch: the exception reaches
\* the coordinator, which keeps its data and records a failed update.
AsyncUpdateDataNoExcept == Raise("UpdateFailed")

\* _async_update_data, except Exception: return {}.
AsyncUpdateDataExcept == Return(EmptyDict)

\* The coordinator calls the listeners after a refresh: every entity of the
\* platform handles the update.
UpdateListeners(entities, coordinator_data) ==
    [sensor_type \in DOMAIN entities |->
        HandleCoordinatorUpdate(sensor_type, entities[sensor_type], coordinator_data)]

\* _async_update_data, first await: _check_octopus_bids runs to its return.
CoCheckOctopusBids ==
    /\ variant = "integration"
    /\ pc = "bids"
    /\ in_flight = {"bids"}
    /\ \E resp \in BidResponses : \E today \in Todays :
        /\ bidsResp' = resp
        /\ bids_today' = today
        /\ bids_data' = CheckOctopusBids(resp, today)
    /\ in_flight' = {}
    /\ pc' = "util"
    /\ UNCHANGED normVars
    /\ UNCHANGED last_saved
    /\ UNCHANGED <<polled, sensorVars>>
    /\ UNCHANGED <<variant, strict, clock, data, states_file, utilization_data,
                   utilResp, util_today, caught, prev>>

\* _async_update_data, second await and return: _check_utilization runs, the
\* two mappings are merged and the coordinator stores the merged mapping.
CoCheckUtilization ==
    /\ variant = "integration"
    /\ pc = "util"
    /\ in_flight = {"util"}
    /\ \E resp \in UtilResponses : \E today \in Todays :
        /\ utilResp' = resp
        /\ util_today' = today
        /\ utilization_data' = CheckUtilization(resp, today, clock)
    /\ data' = Merge(bids_data, utilization_data')
    /\ in_flight' = {}
    /\ pc' = "idle"
    /\ UNCHANGED normVars
    /\ UNCHANGED last_saved
    /\ last_update_success' = TRUE
    /\ sensors' = UpdateListeners(sensors, data')
    /\ polled' = TRUE
    /\ UNCHANGED platform
    /\ UNCHANGED <<variant, strict, clock, states_file, bids_data, bidsResp,
                   bids_today, caught, prev>>

\* _async_update_data, except branch: async_add_executor_job raises (the
\* executor refuses the job); the update returns {} and the coordinator stores it.
CoUpdateFailed ==
    /\ variant = "integration"
    /\ pc \in {"bids", "util"}
    /\ in_flight = {}
    /\ data' = IF AsyncUpdateDataExcept.raised THEN data
               ELSE AsyncUpdateDataExcept.value
    /\ last_update_success' = ~AsyncUpdateDataExcept.raised
    /\ sensors' = UpdateListeners(sensors, data')
    /\ polled' = TRUE
    /\ caught' = TRUE
    /\ pc' = "idle"
    /\ UNCHANGED normVars
    /\ UNCHANGED last_saved
    /\ UNCHANGED platform
    /\ UNCHANGED <<variant, strict, in_flight, clock, states_file, bids_data,
                   utilization_data, bidsResp, utilResp, bids_today, util_today, prev>>

\* The wait is over when no cycle is running: the coordinator arms its
\* interval timer after a refresh has finished.
CoTimerArmed == pc = "idle" /\ platform = "ready"

\* A set-up of the entry that forwards to the platforms without awaiting the
\* refresh.
EntryRefreshNotAwaited == TRUE

\* async_setup_entry: await coordinator.async_refresh() comes before the
\* platforms are set up.
EntryRefreshAwaited == pc = "idle"

\* async_setup_entry goes on after its refresh: the coordinator is stored,
\* the entry is forwarded to the sensor platform, whose async_setup_entry
\* awaits async_config_entry_first_refresh(): a second refresh starts at once.
CoForwardEntrySetups ==
    /\ variant = "integration"
    /\ platform = "entry"
    /\ EntryRefreshAwaited
    /\ platform' = "sensor_setup"
    /\ pc' = "bids"
    /\ prev' = data
    /\ bids_data' = EmptyDict
    /\ utilization_data' = EmptyDict
    /\ bidsResp' = NoResponse
    /\ utilResp' = NoResponse
    /\ bids_today' = NoDay
    /\ util_today' = NoDay
    /\ caught' = FALSE
    /\ UNCHANGED normVars
    /\ UNCHANGED last_saved
    /\ UNCHANGED <<variant, strict, in_flight, clock, data, states_file, polled,
                   sensors, last_update_success>>

\* The sensor platform's async_setup_entry goes on after its refresh: one
\* entity per sensor type is created from coordinator.data and added; the
\* first listener arms the coordinator's interval timer.
CoAddEntities ==
    /\ variant = "integration"
    /\ platform = "sensor_setup"
    /\ pc = "idle"
    /\ sensors' = [sensor_type \in SensorTypes |-> CreateSensor(sensor_type, data)]
    /\ platform' = "ready"
    /\ UNCHANGED normVars
    /\ UNCHANGED last_saved
    /\ UNCHANGED <<variant, strict, pc, in_flight, clock, data, states_file,
                   bids_data, utilization_data, bidsResp, utilResp, bids_today,
                   util_today, caught, prev, polled, last_update_success>>

\* The update interval elapses: the next refresh starts.
CoRefresh ==
    /\ variant = "integration"
    /\ CoTimerArmed
    /\ pc' = "bids"
    /\ clock' = IF clock < MaxClock THEN clock + 1 ELSE clock
    /\ prev' = data
    /\ bids_data' = EmptyDict
    /\ utilization_data' = EmptyDict
    /\ bidsResp' = NoResponse
    /\ utilResp' = NoResponse
    /\ bids_today' = NoDay
    /\ util_today' = NoDay
    /\ caught' = FALSE
    /\ UNCHANGED normVars
    /\ UNCHANGED last_saved
    /\ UNCHANGED <<polled, sensorVars>>
    /\ UNCHANGED <<variant, strict, in_flight, data, states_file>>

\* ------------------------------------------------------------------ add-on

\* A main_loop without the except branch: the exception ends the process.
MainLoopNoExcept == "crashed"

\* main_loop, except Exception: an exception raised by a check is printed and
\* the loop goes on to the wait.
MainLoopExcept == "idle"

\* main_loop, first call of the try block: check_octopus_bids runs to its
\* return or to the exception it raises again.
FiCheckOctopusBids ==
    /\ variant = "addon"
    /\ pc = "bids"
    /\ in_flight = {"bids"}
    /\ \E resp \in BidResponses : \E today \in Todays :
        LET o == FileCheckOctopusBids(resp, clock, strict, states_file)
        IN  /\ bidsResp' = resp
            /\ bids_today' = today
            /\ states_file' = o.file
            /\ last_saved' = IF o.passed = <<>> THEN last_saved
                              ELSE o.passed[Len(o.passed)]
            /\ bids_data' = IF o.saved THEN o.file ELSE EmptyDict
            /\ caught' = o.raised
            /\ pc' = IF o.raised THEN MainLoopExcept ELSE "util"
    /\ in_flight' = {}
    /\ UNCHANGED normVars
    /\ polled' = (polled \/ pc' = "idle")
    /\ UNCHANGED sensorVars
    /\ UNCHANGED <<variant, strict, clock, data, utilization_data, utilResp,
                   util_today, prev>>

\* main_loop, second call of the try block: check_utilization.
FiCheckUtilization ==
    /\ variant = "addon"
    /\ pc = "util"
    /\ in_flight = {"util"}
    /\ \E resp \in UtilResponses : \E today \in Todays :
        LET o == FileCheckUtilization(resp, clock, strict, states_file)
        IN  /\ utilResp' = resp
            /\ util_today' = today
            /\ states_file' = o.file
            /\ last_saved' = IF o.passed = <<>> THEN last_saved
                              ELSE o.passed[Len(o.passed)]
            /\ utilization_data' = IF o.saved THEN o.file ELSE EmptyDict
            /\ caught' = o.raised
            /\ pc' = IF o.raised THEN MainLoopExcept ELSE "idle"
    /\ in_flight' = {}
    /\ UNCHANGED normVars
    /\ polled' = TRUE
    /\ UNCHANGED sensorVars
    /\ UNCHANGED <<variant, strict, clock, data, bids_data, bidsResp, bids_today, prev>>

\* A wait that can end at any point of the loop, a check still running.
FiSleepingAnywhere == TRUE

\* time.sleep follows the try block: the wait starts when the checks are over.
FiSleeping == pc = "idle"

\* main_loop: time.sleep(CHECK_INTERVAL) returns and the loop starts over.
FiSleep ==
    /\ variant = "addon"
    /\ FiSleeping
    /\ pc' = "bids"
    /\ clock' = IF clock < MaxClock THEN clock + 1 ELSE clock
    /\ prev' = states_file
    /\ bids_data' = EmptyDict
    /\ utilization_data' = EmptyDict
    /\ bidsResp' = NoResponse
    /\ utilResp' = NoResponse
    /\ bids_today' = NoDay
    /\ util_today' = NoDay
    /\ caught' = FALSE
    /\ UNCHANGED normVars
    /\ UNCHANGED last_saved
    /\ UNCHANGED <<polled, sensorVars>>
    /\ UNCHANGED <<variant, strict, in_flight, data, states_file>>

\* ----------------------------------------------------------- specification

Next ==
    \/ SendRequest("integration")
    \/ CoCheckOctopusBids
    \/ CoCheckUtilization
    \/ CoUpdateFailed
    \/ CoForwardEntrySetups
    \/ CoAddEntities
    \/ CoRefresh
    \/ SendRequest("addon")
    \/ FiCheckOctopusBids
    \/ FiCheckUtilization
    \/ FiSleep

Spec == Init /\ [][Next]_vars

\* Every request is answered or fails, and every wait ends: the loops are
\* sequential code, so a step that can be taken is taken.
FairSpec == Spec /\ WF_vars(Next)

\* ------------------------------------------------- the normalizer on its own

mainVars == <<variant, strict, pc, in_flight, clock, data, states_file, bids_data,
              utilization_data, bidsResp, utilResp, bids_today, util_today, caught,
              prev, polled, last_saved, sensorVars>>

\* The normalizer of the program that runs.
Normalize(value) ==
    IF variant = "integration" THEN ConvertToSerializable(value, tz, strict)
    ELSE FileConvertToSerializable(value, strict)

NormInit ==
    /\ Constructed
    /\ tz \in Offsets
    /\ obj \in Values
    /\ once = NotApplied
    /\ twice = NotApplied

\* The normalizer is called on obj.
NormalizeOnce(v) ==
    /\ variant = v
    /\ once = NotApplied
    /\ once' = Normalize(obj)
    /\ UNCHANGED <<mainVars, tz, obj, twice>>

\* The normalizer is called on the value it returned.
NormalizeTwice(v) ==
    /\ variant = v
    /\ once # NotApplied
    /\ ~once.raised
    /\ twice = NotApplied
    /\ twice' = Normalize(once.value)
    /\ UNCHANGED <<mainVars, tz, obj, once>>

NormNext ==
    \/ NormalizeOnce("integration")
    \/ NormalizeTwice("integration")
    \/ NormalizeOnce("addon")
    \/ NormalizeTwice("addon")

NormSpec == NormInit /\ [][NormNext]_vars

\* -------------------------------------------------------------- properties

\* The keys _check_utilization and _check_octopus_bids publish when they succeed.
UtilKeys ==
    {K_UTILIZATION, K_DELIVERY_DATE, K_HIGHEST_ACCEPTED, K_TIME_WINDOW, K_PRICE, K_VOLUME}
BidKeys == {K_DETAILS}

\* The keys of the bid dataset and the status key of the utilization dataset
\* in the running program.
BidDatasetKeys == IF variant = "integration" THEN BidKeys ELSE {F_STATUS, F_DETAILS}
UtilStatusKey == IF variant = "integration" THEN K_UTILIZATION ELSE F_UTILIZATION

\* The response is a failure that is no 409: a network error, an HTTP error
\* or a record set without an expected column.
Fails(resp) ==
    \/ resp.kind \in {"connection_error", "http_error"}
    \/ resp.kind = "ok" /\ resp.frame # <<>> /\ C_DATE \notin Columns(resp.frame)

\* The response is a record set (possibly empty) with the expected columns.
Succeeds(resp) ==
    resp.kind = "ok" /\ (resp.frame = <<>> \/ C_DATE \in Columns(resp.frame))

\* The refresh of the integration was aborted outside the two checks.
ExecutorFailed == variant = "integration" /\ caught

\* A check of this cycle raised to its caller.  The checks of the integration
\* return a mapping in every case; in the add-on the bid check raised when the
\* cycle ended before the utilization check received a response.
BidCheckRaised == variant = "addon" /\ caught /\ utilResp = NoResponse
UtilCheckRaised == variant = "addon" /\ caught /\ utilResp # NoResponse

\* Key k is published with state "error" and the attributes last_checked, error.
ErrorPublished(k) ==
    /\ k \in DOMAIN Visible
    /\ Visible[k].state = Str("error")
    /\ {"last_checked", "error"} \subseteq DOMAIN Visible[k].attributes

\* C1: every cycle that enters Polling returns to Idle whatever the checks
\* end with, and after each Idle wait a new Polling cycle starts: no failure
\* of a check ends the loop.
C1_PollingReturnsToIdle ==
    /\ (pc \in {"bids", "util"}) ~> (pc = "idle")
    /\ (pc = "idle") ~> (pc = "bids")

\* C1, its case: an exception reached the cycle boundary in a cycle that
\* followed a wait, and the loop is at its wait again.
C1_Witness == pc = "idle" /\ caught /\ clock >= 1

\* C2: when the utilization query fails and the bid query succeeds, the
\* published mapping holds the fresh bid keys and, for every utilization key,
\* the value of the previous cycle or an error state; no key published by the
\* previous cycle is missing.
C2_StableKeySet ==
    (/\ variant = "integration"
     /\ pc = "idle"
     /\ ~caught
     /\ Succeeds(bidsResp)
     /\ Fails(utilResp)) =>
        /\ \A k \in BidKeys : k \in DOMAIN data /\ data[k] = bids_data[k]
        /\ \A k \in UtilKeys :
            /\ k \in DOMAIN data
            /\ \/ data[k].state = Str("error")
               \/ k \in DOMAIN prev /\ data[k] = prev[k]
        /\ DOMAIN prev \subseteq DOMAIN data

\* C3: every successful cycle publishes the complete key set, also when a
\* dataset has no records: each key of that dataset is then present with a
\* null or placeholder state and attributes that carry no data (None or an
\* empty list), never absent.
C3_CompleteKeySet ==
    (/\ variant = "integration"
     /\ pc = "idle"
     /\ ~caught
     /\ Succeeds(bidsResp)
     /\ Succeeds(utilResp)) =>
        /\ \A k \in UtilKeys :
            /\ k \in DOMAIN data
            /\ utilResp.frame = <<>> =>
                /\ data[k].state.t \in {"none", "str"}
                /\ \A a \in DOMAIN data[k].attributes :
                        data[k].attributes[a] \in {None, List(<<>>)}
        /\ \A k \in BidKeys :
            /\ k \in DOMAIN data
            /\ bidsResp.frame = <<>> =>
                /\ data[k].state.t \in {"none", "str"}
                /\ \A a \in DOMAIN data[k].attributes :
                        data[k].attributes[a] \in {None, List(<<>>)}

\* C4: the visible mapping is at every moment the complete merged mapping of
\* the previous cycle or the complete merged mapping of the new cycle: while a
\* cycle runs it is the previous one, and after the cycle it is the previous
\* one or the merge of what the two checks of the cycle produced.
C4_AtomicReplace ==
    /\ pc # "idle" => Visible = prev
    /\ pc = "idle" => Visible = prev \/ Visible = Merge(bids_data, utilization_data)

\* C5: an HTTP 409 answer to either query makes the check yield an empty
\* result without raising: no state, so no error state, is produced for that
\* dataset, and the cycle goes on as with any other result (the utilization
\* check follows the bid check, the visible mapping is what the bid check
\* left of it).
C5_Conflict409YieldsEmpty ==
    /\ bidsResp.kind = "http_409" =>
        /\ bids_data = EmptyDict
        /\ ~BidCheckRaised
        /\ pc = "util" => Visible = prev
    /\ utilResp.kind = "http_409" =>
        /\ utilization_data = EmptyDict
        /\ ~UtilCheckRaised
        /\ pc = "idle"
        /\ Visible = IF variant = "addon" /\ bids_data = EmptyDict THEN prev ELSE bids_data

\* C5, its case: the bid check published states and the utilization query of
\* the same cycle was answered 409.
C5_Witness ==
    /\ pc = "idle"
    /\ utilResp.kind = "http_409"
    /\ bidsResp.kind = "ok"
    /\ bids_data # EmptyDict

\* C6: when a check fails with a non-409 HTTP error, a network error or a
\* missing column, a key of that dataset is published with state "error" and
\* the attributes last_checked and error, for the bid dataset as for the
\* utilization dataset, and the check does not raise to the scheduler.
C6_FailureYieldsErrorState ==
    (pc = "idle" /\ ~ExecutorFailed) =>
        /\ Fails(bidsResp) =>
            /\ \E k \in BidDatasetKeys : ErrorPublished(k)
            /\ ~BidCheckRaised
        /\ Fails(utilResp) =>
            /\ ErrorPublished(UtilStatusKey)
            /\ ~UtilCheckRaised

\* C7: when an exception is caught at the cycle boundary nothing is published
\* for that cycle: the visible mapping after the cycle is the mapping before it.
C7_CaughtCycleRetainsState == (pc = "idle" /\ caught) => Visible = prev

\* C8: at most one cycle is in flight: the only request that can be waiting
\* for its answer is the one of the check the cycle is at, so none waits
\* during the wait for the next interval and none of the previous cycle waits
\* when the first check of a cycle starts.
C8_OneCycleInFlight ==
    /\ in_flight \subseteq {pc}
    /\ pc = "idle" => in_flight = {}

\* C8, its case: a second cycle has started and its first request is waiting.
C8_Witness == pc = "bids" /\ in_flight = {"bids"} /\ clock >= 1

\* C9: both checks run in every cycle: a failed bid check does not keep the
\* utilization check of the cycle from running and publishing, and a failed
\* utilization check does not discard what the bid check of the cycle published.
C9_ChecksIndependent ==
    (pc = "idle" /\ ~ExecutorFailed) =>
        /\ Fails(bidsResp) =>
            /\ utilResp # NoResponse
            /\ \A k \in DOMAIN utilization_data :
                    k \in DOMAIN Visible /\ Visible[k] = utilization_data[k]
        /\ Fails(utilResp) =>
            \A k \in DOMAIN bids_data :
                k \in DOMAIN Visible /\ Visible[k] = bids_data[k]

\* C10: a 2xx answer whose body has success false, or has no result field,
\* makes the check hand an empty result to its caller without raising, for
\* the bid dataset and for the utilization dataset.
C10_NoResultYieldsEmpty ==
    /\ bidsResp.kind \in {"not_success", "no_result"} =>
        bids_data = EmptyDict /\ ~BidCheckRaised
    /\ utilResp.kind \in {"not_success", "no_result"} =>
        utilization_data = EmptyDict /\ ~UtilCheckRaised

\* The date the rule "earliest delivery date from today on, else the latest
\* delivery date" selects among dates: d is that date.
IsResolvedDate(d, dates, today) ==
    /\ d \in dates
    /\ IF \E x \in dates : x >= today
       THEN d >= today /\ \A x \in dates : x >= today => d <= x
       ELSE \A x \in dates : x <= d

\* The delivery dates of the records of a frame.
DatesOf(frame) == {frame[i][C_DATE] : i \in DOMAIN frame}

\* C11: the delivery date of the published eligibility slot listing is the
\* earliest delivery date >= today among the records when there is one, else
\* the latest delivery date among them.
C11_ListingDateResolved ==
    \A k \in {K_DETAILS, F_DETAILS} :
        (k \in DOMAIN bids_data /\ bids_data[k].state.t = "listing") =>
            IsResolvedDate(bids_data[k].state.v.date, DatesOf(bidsResp.frame), bids_today)

\* C12: in the utilization analysis the published delivery date is resolved
\* by the same rule over the full record set (earliest delivery date >= today,
\* else the latest), and the 'latest' record, whose From and To are published
\* with it, is a record of that date.
C12_UtilizationDateResolved ==
    (variant = "integration" /\ K_DELIVERY_DATE \in DOMAIN utilization_data) =>
        LET published == utilization_data[K_DELIVERY_DATE]
            frame == utilResp.frame
        IN  /\ IsResolvedDate(published.state.v, DatesOf(frame), util_today)
            /\ \E i \in DOMAIN frame :
                /\ frame[i][C_DATE] = published.state.v
                /\ published.attributes["time_from"] = ConvertTime(frame[i][C_FROM])
                /\ published.attributes["time_to"] = ConvertTime(frame[i][C_TO])

\* The resolved date of a non-empty record set.
TheResolvedDate(frame, today) ==
    CHOOSE d \in DatesOf(frame) : IsResolvedDate(d, DatesOf(frame), today)

\* C13: the published highest accepted bid is the record of the resolved
\* date with the largest utilization price among those whose status contains
\* 'accepted' in any case, the first of them in record order when several
\* hold the largest price.
C13_HighestAcceptedIsMax ==
    (variant = "integration" /\ K_HIGHEST_ACCEPTED \in DOMAIN utilization_data) =>
        LET frame == utilResp.frame
            d == TheResolvedDate(frame, util_today)
            accepted == {i \in DOMAIN frame :
                            frame[i][C_DATE] = d /\ ContainsAccepted(frame[i][C_STATUS])}
            best == {i \in accepted : \A j \in accepted : frame[j][C_PRICE] <= frame[i][C_PRICE]}
            first == CHOOSE i \in best : \A j \in best : i <= j
            published == utilization_data[K_HIGHEST_ACCEPTED]
        IN  accepted # {} =>
                /\ published.state.v = frame[first][C_PRICE]
                /\ published.attributes =
                        ("delivery_date" :> ConvertDate(d))
                        @@ ("time_from" :> ConvertTime(frame[first][C_FROM]))
                        @@ ("time_to" :> ConvertTime(frame[first][C_TO]))
                        @@ ("volume" :> Num(frame[first][C_VOLUME]))
                        @@ ("last_update" :> published.attributes["last_update"])

\* C14: when no record of the resolved date is accepted, the highest-accepted
\* key is published with an explicit sentinel as its state: the key is
\* present, its state is a text and not null, and the check raised nothing.
C14_NoAcceptedSentinel ==
    LET frame == utilResp.frame
        key == IF variant = "integration" THEN K_HIGHEST_ACCEPTED ELSE F_HIGHEST_ACCEPTED
    IN  (/\ Succeeds(utilResp)
         /\ frame # <<>>
         /\ \A i \in DOMAIN frame :
                frame[i][C_DATE] = TheResolvedDate(frame, util_today)
                    => ~ContainsAccepted(frame[i][C_STATUS])) =>
            /\ ~UtilCheckRaised
            /\ key \in DOMAIN utilization_data
            /\ utilization_data[key].state # None
            /\ utilization_data[key].state.t = "str"

\* C15: the published participant-specific fields (the status, the From and
\* To of the time window, the volume, the prices) are each taken from a record
\* of the tracked participant on the resolved date, when it has one.
C15_FieldsFromTrackedParticipant ==
    LET frame == utilResp.frame
        own == {i \in DOMAIN frame :
                    /\ frame[i][C_PARTICIPANT] = OCTOPUS
                    /\ frame[i][C_DATE] = TheResolvedDate(frame, util_today)}
        TakenFrom(value, col, Conv(_)) == \E i \in own : value = Conv(frame[i][col])
    IN  (variant = "integration" /\ K_DELIVERY_DATE \in DOMAIN utilization_data /\ own # {}) =>
            /\ TakenFrom(utilization_data[K_UTILIZATION].state, C_STATUS, Str)
            /\ TakenFrom(utilization_data[K_DELIVERY_DATE].attributes["time_from"],
                         C_FROM, ConvertTime)
            /\ TakenFrom(utilization_data[K_DELIVERY_DATE].attributes["time_to"],
                         C_TO, ConvertTime)
            /\ TakenFrom(utilization_data[K_DELIVERY_DATE].attributes["volume"],
                         C_VOLUME, Num)
            /\ LET prices == utilization_data[K_PRICE].attributes["individual_prices"].v
               IN  \A j \in DOMAIN prices : TakenFrom(prices[j], C_PRICE, Num)

\* C16: the groups published for the tracked participant are built from its
\* records of the resolved date only, sorted by start time: n records give
\* ceil(n/2) time-window groups and as many volume groups, group g holding
\* record 2g-1 and, when there is one, record 2g.
C16_PairedGroups ==
    LET frame == utilResp.frame
        IsOwn(r) == /\ r[C_PARTICIPANT] = OCTOPUS
                    /\ r[C_DATE] = TheResolvedDate(frame, util_today)
        rows == SortDateFrom(SelectSeq(frame, IsOwn))
        n == Len(rows)
        Members(g) == {i \in 1..n : i \in {2 * g - 1, 2 * g}}
    IN  (variant = "integration" /\ K_TIME_WINDOW \in DOMAIN utilization_data /\ n > 0) =>
            LET windows == utilization_data[K_TIME_WINDOW].attributes["individual_windows"].v
                volumes == utilization_data[K_VOLUME].attributes["individual_volumes"].v
            IN  /\ Len(windows) = (n + 1) \div 2
                /\ Len(volumes) = (n + 1) \div 2
                /\ \A g \in 1..((n + 1) \div 2) :
                    /\ Len(windows[g]) = Cardinality(Members(g))
                    /\ Len(volumes[g]) = Cardinality(Members(g))
                    /\ \A i \in Members(g) :
                        /\ windows[g][i - 2 * g + 2] = <<rows[i][C_FROM], rows[i][C_TO]>>
                        /\ volumes[g][i - 2 * g + 2] = rows[i][C_VOLUME]

\* C17: the state of the price key is the arithmetic mean of the tracked
\* participant's utilization prices of the resolved date only, and the
\* smallest, the largest and the number of those prices are attributes of the
\* price output.
C17_MeanPriceOfResolvedDate ==
    LET frame == utilResp.frame
        IsOwn(r) == /\ r[C_PARTICIPANT] = OCTOPUS
                    /\ r[C_DATE] = TheResolvedDate(frame, util_today)
        rows == SelectSeq(frame, IsOwn)
        prices == {rows[i][C_PRICE] : i \in DOMAIN rows}
    IN  (variant = "integration" /\ K_PRICE \in DOMAIN utilization_data /\ rows # <<>>) =>
            LET price == utilization_data[K_PRICE]
                attrs == SensorAttributes(price)
                Retained(value) == \E a \in DOMAIN attrs : attrs[a] = value
            IN  /\ price.state.t = "mean"
                /\ price.state.v[1] * Len(rows) = SumCol(rows, C_PRICE) * price.state.v[2]
                /\ Retained(Num(SetMin(prices)))
                /\ Retained(Num(SetMax(prices)))
                /\ Retained(Num(Len(rows)))

\* C18: the published slot listing holds, for the rows of its date sorted by
\* start time, exactly one line per maximal run of consecutive rows with the
\* same capacity and guaranteed price, from the start time of the run's first
\* row to the end time of its last row.
C18_RunsMergedIntoPeriods ==
    \A k \in {K_DETAILS, F_DETAILS} :
        (k \in DOMAIN bids_data /\ bids_data[k].state.t = "listing") =>
            LET listing == bids_data[k].state.v
                OfDate(r) == r[C_DATE] = listing.date
                rows == SelectSeq(SortDateFrom(bidsResp.frame), OfDate)
                n == Len(rows)
                Same(i, j) == /\ rows[i][C_MW] = rows[j][C_MW]
                              /\ rows[i][C_GPRICE] = rows[j][C_GPRICE]
                starts == {i \in 1..n : i = 1 \/ ~Same(i, i - 1)}
                Rank(i) == Cardinality({j \in starts : j <= i})
                End(i) == CHOOSE j \in i..n :
                            /\ \A m \in (i + 1)..j : m \notin starts
                            /\ j = n \/ (j + 1) \in starts
            IN  /\ Len(listing.lines) = Cardinality(starts)
                /\ \A i \in starts :
                    /\ listing.lines[Rank(i)].from = rows[i][C_FROM]
                    /\ listing.lines[Rank(i)].to = rows[End(i)][C_TO]

\* C19: the raw_data attribute of the details key holds exactly the records
\* of the delivery date the slot listing of the same cycle shows.
C19_RawDataOfListingDate ==
    \A k \in {K_DETAILS, F_DETAILS} :
        (k \in DOMAIN bids_data /\ bids_data[k].state.t = "listing") =>
            LET shown == bids_data[k].state.v.date
                raw == bids_data[k].attributes["raw_data"].v
                frame == bidsResp.frame
                ofDate == {i \in DOMAIN frame : frame[i][C_DATE] = shown}
            IN  /\ Len(raw) = Cardinality(ofDate)
                /\ \A j \in DOMAIN raw :
                    /\ raw[j][C_DATE].v = shown
                    /\ \E i \in ofDate :
                        /\ raw[j][C_FROM] = ConvertTime(frame[i][C_FROM])
                        /\ raw[j][C_TO] = ConvertTime(frame[i][C_TO])
                        /\ raw[j][C_MW] = Num(frame[i][C_MW])
                        /\ raw[j][C_GPRICE] = Num(frame[i][C_GPRICE])

\* A published value is normalized: neither a raw timestamp object nor a
\* NumPy scalar.
Normalized(value) == value.t \notin {"timestamp", "numpy"}

\* C20: every state and every attribute value of the published mapping is a
\* normalized value, and so is every cell of the rows attached as raw_data.
C20_PublishedValuesNormalized ==
    \A k \in DOMAIN Visible :
        /\ Normalized(Visible[k].state)
        /\ \A a \in DOMAIN Visible[k].attributes :
            LET value == Visible[k].attributes[a]
            IN  /\ Normalized(value)
                /\ a = "raw_data" =>
                    \A j \in DOMAIN value.v : \A c \in DOMAIN value.v[j] :
                        Normalized(value.v[j][c])

\* C21: the normalizer is idempotent on every value of the value model
\* (null, string, number, timestamp, list, mapping): it returns a value for
\* each of them, and normalizing that value again returns it unchanged.
C21_NormalizeIdempotent ==
    once # NotApplied =>
        /\ ~once.raised
        /\ twice # NotApplied => (~twice.raised /\ twice.value = once.value)

\* C22: a normalized timestamp has no sub-second part and keeps the offset
\* its source carried, whatever the local offset of the process; a naive
\* timestamp, and only a naive one, gets the local offset.
C22_TimestampKeepsOffset ==
    (obj.t = "stamp" /\ once # NotApplied) =>
        /\ ~once.raised
        /\ once.value = Iso(obj.v.wall, 0,
                            IF obj.v.offset = "naive" THEN tz ELSE obj.v.offset)

\* The attribute is present and holds a value.
Populated(attributes, a) == a \in DOMAIN attributes /\ attributes[a].t # "none"

\* The attributes that describe the highest accepted record.
BundleAttributes == {"delivery_date", "time_from", "time_to", "volume"}

\* C23: the highest-accepted key is never half-filled: in every published
\* mapping either its state is a price and delivery_date, time_from, time_to
\* and volume are all populated, or its state is the no-data sentinel and
\* none of them is populated.
C23_HighestAcceptedWholeOrEmpty ==
    \A k \in {K_HIGHEST_ACCEPTED, F_HIGHEST_ACCEPTED} \cap DOMAIN Visible :
        LET e == Visible[k]
        IN  \/ /\ e.state.t \in {"num", "numpy"}
               /\ \A a \in BundleAttributes : Populated(e.attributes, a)
            \/ /\ e.state \in {None, Str("No accepted bids")}
               /\ \A a \in BundleAttributes : ~Populated(e.attributes, a)

\* C24: the first poll cycle runs at start: no wait of the poll interval has
\* ended before a first cycle has run to its end, and in the integration the
\* first refresh has run to its end before the sensor platform is set up.
C24_FirstCycleImmediate ==
    /\ clock >= 1 => polled
    /\ platform \in {"sensor_setup", "ready"} => polled

\* The first refresh is over, the sensor platform is being set up and no
\* wait has ended.
C24_Witness ==
    polled /\ clock = 0 /\ platform = "sensor_setup" /\ data # EmptyDict

\* DfsSessionWatchSensor.available.
Available(sensor_type) == last_update_success /\ sensor_type \in DOMAIN data

\* The cycle that has ended was successful and its utilization record set
\* was not empty.
SuccessfulCycleWithUtilization ==
    /\ variant = "integration"
    /\ pc = "idle"
    /\ ~caught
    /\ Succeeds(bidsResp)
    /\ Succeeds(utilResp)
    /\ utilResp.frame # <<>>

\* C25: every sensor type the platform creates an entity for is a key of the
\* mapping published after a successful cycle with non-empty utilization
\* data, so that every entity reports available after such a cycle.
C25_EverySensorTypePublished ==
    (SuccessfulCycleWithUtilization /\ platform = "ready") =>
        \A sensor_type \in DOMAIN sensors :
            sensor_type \in DOMAIN data /\ Available(sensor_type)

\* C26: the coordinator's update function never raises: whatever the two
\* checks did (success, empty, error state, exception) it returned a
\* mapping, the coordinator has recorded no failed update, and an entity is
\* available exactly when its sensor type is a key of the mapping.
C26_UpdateNeverRaises ==
    variant = "integration" =>
        /\ last_update_success
        /\ \A sensor_type \in DOMAIN sensors :
            Available(sensor_type) <=> sensor_type \in DOMAIN data

\* An exception was caught in a refresh after the platform was set up and
\* after data had been published: the update returned the empty mapping.
C26_Witness ==
    /\ variant = "integration"
    /\ platform = "ready"
    /\ pc = "idle"
    /\ caught
    /\ prev # EmptyDict
    /\ data = EmptyDict
    /\ last_update_success

\* The check ended early: it returned before it built any states.
BidCheckEndedEarly ==
    bidsResp.kind \in {"http_409", "not_success", "no_result"}
UtilCheckEndedEarly ==
    \/ utilResp.kind \in {"http_409", "not_success"}
    \/ utilResp.kind = "ok" /\ utilResp.frame = <<>>

C28_MissingKeyResetsSensor ==
    \A sensor_type \in DOMAIN sensors :
        sensor_type \notin DOMAIN data =>
            IF /\ sensor_type = SENSOR_DELIVERY_DATE
               /\ K_HIGHEST_ACCEPTED \in DOMAIN data
               /\ Populated(data[K_HIGHEST_ACCEPTED].attributes, "delivery_date")
            THEN sensors[sensor_type].native_value =
                    ProcessDeliveryDate(data[K_HIGHEST_ACCEPTED].attributes["delivery_date"])
            ELSE sensors[sensor_type] = Sensor(None, EmptyDict)

\* The volume entity held a value of the previous cycle, and the update of
\* this cycle brought data without its key.
C28_Witness ==
    /\ platform = "ready"
    /\ clock >= 1
    /\ pc = "idle"
    /\ SENSOR_VOLUME \in DOMAIN prev
    /\ prev[SENSOR_VOLUME].state # None
    /\ SENSOR_VOLUME \notin DOMAIN data
    /\ sensors[SENSOR_VOLUME] = Sensor(None, EmptyDict)

\* C29: whenever the price key is published with a numeric average as its
\* state, the native value of the price entity after the update is that
\* average; the value is None only when the published state is None or not
\* a number.
C29_PriceSensorShowsAverage ==
    (platform = "ready" /\ SENSOR_PRICE \in DOMAIN data) =>
        LET state == data[SENSOR_PRICE].state
            native_value == sensors[SENSOR_PRICE].native_value
        IN  /\ state.t = "mean" => native_value = state
            /\ native_value = None => state.t # "mean"

====
